---- MODULE Spec2Model ----
\* The TCP chat server of TCP_Server_Client.py: the wire codec (the recv and
\* send functions), the shared state of TCPServerClient (people, messages)
\* and the per-connection handler server_handle_clients.
\*
\* A Python str is a sequence of code points, a bytes object a sequence of
\* 0..255.  The Python value False is the constant False below.
EXTENDS Integers, Sequences, FiniteSets, TLC

VARIABLES
    people,          \* self.people: username -> connection (its writer)
    messages,        \* self.messages: the recent messages, oldest first
    pc,              \* per connection: where its handler is
    valid_username,  \* per connection: the handler's local valid_username
    inbuf,           \* per connection: bytes received and not yet read
    eof,             \* per connection: the peer has closed its side
    out,             \* per connection: what was written to its writer
    clock,           \* the wall clock when time.strftime was last called
    appended,        \* history: every message passed to add_to_recent_messages
    regAt,           \* history: Len(appended) when the connection was registered
    ckind,           \* codec check: which pair of functions is exercised
    cvalue,          \* codec check: the value given to the send function
    cwire,           \* codec check: the bytes written
    ctail,           \* codec check: the bytes that follow on the stream
    cresult,         \* codec check: what the recv function returned
    cphase,          \* codec check: "compose", "sent", "received" or "off"
    wpc,             \* client: where its task write_to_server is
    rpc,             \* client: where its task read_from_server is
    client_valid_username,  \* client: valid_username of read_from_server
    written,         \* client: the data of each writer.write, in order
    rbuf,            \* client: bytes received and not yet read
    printed          \* client: the lines printed

vars == << people, messages, pc, valid_username, inbuf, eof, out, clock,
           appended, regAt, ckind, cvalue, cwire, ctail, cresult, cphase,
           wpc, rpc, client_valid_username, written, rbuf, printed >>

clientVars == << wpc, rpc, client_valid_username, written, rbuf, printed >>

serverVars == << people, messages, pc, valid_username, inbuf, eof, out, clock,
                 appended, regAt >>

codecVars == << ckind, cvalue, cwire, ctail, cresult, cphase >>

----------------------------------------------------------------------------
(* Bounds *)

NumConns == 2          \* connections of Spec
MaxAppends == 2        \* messages appended in a run of Spec
MaxLongAppends == 12   \* messages appended in a run of SpecLong
MaxClock == 1          \* the latest time the wall clock shows
MaxSize == 6           \* characters, strings and lists composed in SpecCodec
MaxFrameAppends == 2   \* messages appended in a run of SpecFrames
MaxLines == 2          \* lines the user of SpecClient types after the username
MaxPrinted == 2        \* lines the client of SpecClient prints

(* Program constants *)

HistoryCapacity == 10
OpRegister == 1
OpSend == 2

----------------------------------------------------------------------------
(* Values *)

Min(a, b) == IF a < b THEN a ELSE b

\* Python's False, as returned by server_get_username_validation and
\* server_receive_messages; no str equals it.
False == << -1 >>

\* bool(v) of a value that is False or a str
Truthy(v) == v # False /\ v # << >>

\* what an exception leaves in place of a result
Raise == [ok |-> FALSE, val |-> << >>, rest |-> << >>]

Return(v, rest) == [ok |-> TRUE, val |-> v, rest |-> rest]

\* the text of the strings the model's clients type
StrA == << 97 >>
StrB == << 98 >>
StrM == << 109 >>

----------------------------------------------------------------------------
(* Wire codec *)

\* struct.pack('<i', n): four bytes, little-endian, two's complement
pack_i(n) ==
    LET lo == n % 16777216
        hi == (n - lo) \div 16777216
    IN  << lo % 256, (lo \div 256) % 256, lo \div 65536, hi % 256 >>

\* struct.unpack('<i', b)[0]; struct.error unless b holds exactly four bytes
unpack_i(b) ==
    IF Len(b) # 4
    THEN Raise
    ELSE LET lo == b[1] + 256 * b[2] + 65536 * b[3]
             hi == IF b[4] >= 128 THEN b[4] - 256 ELSE b[4]
         IN  Return(hi * 16777216 + lo, << >>)

\* struct.unpack('<?', b)[0]: any nonzero byte is True
unpack_bool(b) ==
    IF Len(b) # 1 THEN Raise ELSE Return(b[1] # 0, << >>)

\* str.encode(): UTF-8, one byte below U+0080, two below U+0800
RECURSIVE encode(_)
encode(s) ==
    IF s = << >>
    THEN << >>
    ELSE LET c == Head(s)
         IN  (IF c < 128
              THEN << c >>
              ELSE << 192 + (c \div 64), 128 + (c % 64) >>) \o encode(Tail(s))

\* bytes.decode(): UnicodeDecodeError on a byte sequence that is not UTF-8
RECURSIVE decode(_)
decode(b) ==
    IF b = << >>
    THEN Return(<< >>, << >>)
    ELSE IF b[1] < 128
    THEN LET r == decode(Tail(b))
         IN  IF r.ok THEN Return(<< b[1] >> \o r.val, << >>) ELSE Raise
    ELSE IF b[1] >= 194 /\ b[1] < 224 /\ Len(b) >= 2 /\ b[2] >= 128 /\ b[2] < 192
    THEN LET r == decode(Tail(Tail(b)))
         IN  IF r.ok
             THEN Return(<< (b[1] - 192) * 64 + (b[2] - 128) >> \o r.val, << >>)
             ELSE Raise
    ELSE Raise

\* StreamReader.read(n) on a stream whose available bytes are buf: at most n
\* bytes, fewer when fewer are there, b'' at end of stream
read(buf, n) ==
    IF n < 0
    THEN Return(buf, << >>)
    ELSE Return(SubSeq(buf, 1, Min(n, Len(buf))),
                SubSeq(buf, Min(n, Len(buf)) + 1, Len(buf)))

\* recv_single_value(reader, '<i')
recv_int(buf) ==
    LET r == read(buf, 4)
        v == unpack_i(r.val)
    IN  IF v.ok THEN Return(v.val, r.rest) ELSE Raise

\* recv_single_value(reader, '<?')
recv_bool(buf) ==
    LET r == read(buf, 1)
        v == unpack_bool(r.val)
    IN  IF v.ok THEN Return(v.val, r.rest) ELSE Raise

\* recv_str(reader): the length, then one read of that many bytes, decoded
recv_str(buf) ==
    LET n == recv_int(buf)
    IN  IF ~n.ok
        THEN Raise
        ELSE LET r == read(n.rest, n.val)
                 s == decode(r.val)
             IN  IF s.ok THEN Return(s.val, r.rest) ELSE Raise

\* the loop of recv_str_list: k more strings after acc
RECURSIVE recv_strs(_, _, _)
recv_strs(buf, k, acc) ==
    IF k <= 0
    THEN Return(acc, buf)
    ELSE LET s == recv_str(buf)
         IN  IF s.ok THEN recv_strs(s.rest, k - 1, Append(acc, s.val)) ELSE Raise

\* recv_str_list(reader)
recv_str_list(buf) ==
    LET n == recv_int(buf)
    IN  IF n.ok THEN recv_strs(n.rest, n.val, << >>) ELSE Raise

\* the loop of recv_list_of_lists: k more lists after acc
RECURSIVE recv_lists(_, _, _)
recv_lists(buf, k, acc) ==
    IF k <= 0
    THEN Return(acc, buf)
    ELSE LET l == recv_str_list(buf)
         IN  IF l.ok THEN recv_lists(l.rest, k - 1, Append(acc, l.val)) ELSE Raise

\* recv_list_of_lists(reader)
recv_list_of_lists(buf) ==
    LET n == recv_int(buf)
    IN  IF n.ok THEN recv_lists(n.rest, n.val, << >>) ELSE Raise

send_str_char_count(string) == pack_i(Len(string)) \o encode(string)

\* send_str(writer, string): the bytes written
send_str(string) == pack_i(Len(encode(string))) \o encode(string)

\* the loop of send_str_list
RECURSIVE send_strs(_)
send_strs(strings) ==
    IF strings = << >>
    THEN << >>
    ELSE send_str(Head(strings)) \o send_strs(Tail(strings))

\* send_str_list(writer, strings): the bytes written
send_str_list(strings) == pack_i(Len(strings)) \o send_strs(strings)

\* the loop of send_list_of_lists
RECURSIVE send_lists(_)
send_lists(lists) ==
    IF lists = << >>
    THEN << >>
    ELSE send_str_list(Head(lists)) \o send_lists(Tail(lists))

\* send_list_of_lists(writer, messages): the bytes written
send_list_of_lists(lists) == pack_i(Len(lists)) \o send_lists(lists)

----------------------------------------------------------------------------
(* The server: TCPServerClient.people, .messages and one handler per       *)
(* connection                                                              *)

Conns == 1 .. NumConns

\* dict.values() of a dict as a function: the connections it maps to
Range(f) == { f[k] : k \in DOMAIN f }

\* time.strftime('%X'): the wall clock as text
strftime(t) == << 48 + t >>

\* what one call of writer.write puts on a connection: the accepted flag, the
\* history (a list of lists) or one message (a list)
BoolFrame(b) == [kind |-> "bool", flag |-> b, lists |-> << >>]
HistFrame(msgs) == [kind |-> "hist", flag |-> FALSE, lists |-> msgs]
MsgFrame(message) == [kind |-> "msg", flag |-> FALSE, lists |-> << message >>]

\* the handler has returned or died: its transport is closed, and
\* transport.write drops what is written to it without raising
Gone(c) == pc[c] \in {"closed", "failed"}

\* writer.write on connection c, given the written frames o of all connections
write(o, c, frame) ==
    IF Gone(c) THEN o ELSE [o EXCEPT ![c] = Append(@, frame)]

\* the for loop of send_messages_to_all over the entries keys of ppl
RECURSIVE send_to_writers(_, _, _, _)
send_to_writers(o, ppl, keys, message) ==
    IF keys = { }
    THEN o
    ELSE LET k == CHOOSE x \in keys : TRUE
         IN  send_to_writers(write(o, ppl[k], MsgFrame(message)), ppl,
                             keys \ {k}, message)

\* a loop that ends at the first writer whose transport is closed
RECURSIVE send_until_closed(_, _, _, _)
send_until_closed(o, ppl, keys, message) ==
    IF keys = { }
    THEN o
    ELSE LET k == CHOOSE x \in keys : TRUE
         IN  IF Gone(ppl[k])
             THEN o
             ELSE send_until_closed(write(o, ppl[k], MsgFrame(message)), ppl,
                                    keys \ {k}, message)

send_messages_to_all_abort(o, ppl, message) ==
    send_until_closed(o, ppl, DOMAIN ppl, message)

\* a loop that leaves out the writer of the message's own username
send_messages_to_all_no_echo(o, ppl, message) ==
    send_to_writers(o, ppl, DOMAIN ppl \ {message[2]}, message)

send_messages_to_all_but_first(o, ppl, message) ==
    IF DOMAIN ppl = { }
    THEN o
    ELSE send_to_writers(o, ppl,
                         DOMAIN ppl \ {CHOOSE x \in DOMAIN ppl : TRUE}, message)

\* send_messages_to_all(message): one send_str_list per writer of people
send_messages_to_all(o, ppl, message) ==
    send_to_writers(o, ppl, DOMAIN ppl, message)

\* a history that keeps its newest message first
add_to_recent_messages_at_front(msgs, message_list) ==
    << message_list >> \o (IF Len(msgs) = HistoryCapacity
                            THEN SubSeq(msgs, 1, Len(msgs) - 1)
                            ELSE msgs)

add_to_recent_messages_pop_last(msgs, message_list) ==
    Append(IF Len(msgs) = HistoryCapacity
           THEN SubSeq(msgs, 1, Len(msgs) - 1)
           ELSE msgs,
           message_list)

\* add_to_recent_messages(message_list): the new self.messages
add_to_recent_messages(msgs, message_list) ==
    Append(IF Len(msgs) = HistoryCapacity THEN Tail(msgs) ELSE msgs,
           message_list)

\* self.people[username] = writer
dict_set(ppl, username, c) ==
    [u \in DOMAIN ppl \cup {username} |-> IF u = username THEN c ELSE ppl[u]]

\* del self.people[username]
dict_del(ppl, username) == [u \in DOMAIN ppl \ {username} |-> ppl[u]]

new_connection_skips_newest(c, username, o) ==
    /\ people' = dict_set(people, username, c)
    /\ out' = write(o, c, HistFrame(SubSeq(messages, 1, Len(messages) - 1)))
    /\ regAt' = [regAt EXCEPT ![c] = Len(appended)]

\* new_connection(writer, username), after the accepted flag was written to o
new_connection(c, username, o) ==
    /\ people' = dict_set(people, username, c)
    /\ out' = write(o, c, HistFrame(messages))
    /\ regAt' = [regAt EXCEPT ![c] = Len(appended)]

\* what a read finds: the bytes that arrive before it returns, and whether
\* the peer then closed
Arrival(bytes, closed) == [bytes |-> bytes, eof |-> closed]

EndOfStream == Arrival(<< >>, TRUE)

\* the bytes a read of connection c has before it, given arrival a
Avail(c, a) == inbuf[c] \o a.bytes

\* after end of stream nothing more arrives
Arrives(c, a) == eof[c] => a = EndOfStream

\* read(4) returns once a byte is there or the stream has ended
IntReady(c, a) == Avail(c, a) # << >> \/ a.eof

\* recv_str returns (or raises) once both of its reads have returned
StrReady(c, a) ==
    /\ IntReady(c, a)
    /\ LET n == recv_int(Avail(c, a))
       IN  n.ok => \/ n.val = 0
                   \/ n.val > 0 /\ n.rest # << >>
                   \/ a.eof

\* a session whose username was accepted and whose handler is in its loop
Registered(c) == ~Gone(c) /\ valid_username[c] # False

username_is_new_always(ppl, username) == TRUE

\* line 150: username not in self.people.keys()
username_is_new(ppl, username) == username \notin DOMAIN ppl

\* a handler that takes a Send from a connection without a username
after_opcode_send_first(data, valid) ==
    IF data = OpRegister /\ ~Truthy(valid)
    THEN "username"
    ELSE IF data = OpSend THEN "body"
    ELSE IF Truthy(valid) THEN "opcode"
    ELSE "closed"

\* a handler that ends the session on an opcode it does not know
after_opcode_strict(data, valid) ==
    IF data = OpRegister /\ ~Truthy(valid)
    THEN "username"
    ELSE IF Truthy(valid) /\ data = OpSend THEN "body"
    ELSE IF Truthy(valid) /\ data = OpRegister THEN "opcode"
    ELSE "closed"

\* a handler that takes a Register whenever one comes
after_opcode_reregister(data, valid) ==
    IF data = OpRegister
    THEN "username"
    ELSE IF Truthy(valid)
    THEN (IF data = OpSend THEN "body" ELSE "opcode")
    ELSE "closed"

\* lines 226-240 after a read of data: where the handler goes next
after_opcode(data, valid) ==
    IF data = OpRegister /\ ~Truthy(valid)
    THEN "username"
    ELSE IF Truthy(valid)
    THEN (IF data = OpSend THEN "body" ELSE "opcode")
    ELSE "closed"

after_validation_retry(valid) ==
    IF Truthy(valid) \/ valid = False THEN "opcode" ELSE "closed"

\* lines 229-240 after server_get_username_validation returned valid (data
\* is 1): back to line 224, or break and close
after_validation(valid) == IF Truthy(valid) THEN "opcode" ELSE "closed"

left_chat_if_falsy(message) == ~Truthy(message)

\* line 233, not message and message != '': the client has left
left_chat(message) == ~Truthy(message) /\ message # << >>

\* line 224, data = await recv_single_value(reader, '<i'), and the branch
\* the loop body takes when no further read is needed
ReadOpcode(c, a) ==
    /\ pc[c] = "opcode"
    /\ Arrives(c, a)
    /\ IntReady(c, a)
    /\ LET data == recv_int(Avail(c, a))
       IN  /\ eof' = [eof EXCEPT ![c] = @ \/ a.eof]
           /\ IF ~data.ok
              THEN \* struct.error leaves the handler
                   /\ pc' = [pc EXCEPT ![c] = "failed"]
                   /\ inbuf' = [inbuf EXCEPT ![c] = << >>]
              ELSE /\ inbuf' = [inbuf EXCEPT ![c] = data.rest]
                   /\ pc' = [pc EXCEPT ![c] =
                                after_opcode(data.val, valid_username[c])]
    /\ UNCHANGED << people, messages, valid_username, out, clock, appended,
                    regAt, codecVars, clientVars >>

\* server_get_username_validation, from the return of its recv_str, and
\* lines 229-240 for data == 1
ReadUsername(c, a) ==
    /\ pc[c] = "username"
    /\ Arrives(c, a)
    /\ StrReady(c, a)
    /\ LET username == recv_str(Avail(c, a))
       IN  /\ eof' = [eof EXCEPT ![c] = @ \/ a.eof]
           /\ IF ~username.ok
              THEN \* the exception leaves the handler
                   /\ pc' = [pc EXCEPT ![c] = "failed"]
                   /\ inbuf' = [inbuf EXCEPT ![c] = << >>]
                   /\ UNCHANGED << people, valid_username, out, regAt >>
              ELSE /\ inbuf' = [inbuf EXCEPT ![c] = username.rest]
                   /\ IF username_is_new(people, username.val)
                      THEN /\ new_connection(c, username.val,
                                             write(out, c, BoolFrame(TRUE)))
                           /\ valid_username' =
                                [valid_username EXCEPT ![c] = username.val]
                           /\ pc' = [pc EXCEPT ![c] = after_validation(username.val)]
                      ELSE /\ out' = write(out, c, BoolFrame(FALSE))
                           /\ valid_username' = [valid_username EXCEPT ![c] = False]
                           /\ pc' = [pc EXCEPT ![c] = after_validation(False)]
                           /\ UNCHANGED << people, regAt >>
    /\ UNCHANGED << messages, clock, appended, codecVars, clientVars >>

\* server_receive_messages, from the return of its recv_str, and lines
\* 233-237, where time.strftime reads one of times from the wall clock; at
\* most limit messages are appended in a run
ReadBody(c, a, limit, times) ==
    /\ pc[c] = "body"
    /\ Arrives(c, a)
    /\ StrReady(c, a)
    /\ LET message == recv_str(Avail(c, a))
       IN  /\ eof' = [eof EXCEPT ![c] = @ \/ a.eof]
           /\ IF ~message.ok
              THEN \* except: del self.people[valid_username]; return False
                   /\ inbuf' = [inbuf EXCEPT ![c] = << >>]
                   /\ IF valid_username[c] \in DOMAIN people
                      THEN /\ people' = dict_del(people, valid_username[c])
                           /\ pc' = [pc EXCEPT ![c] = "closed"]
                      ELSE \* KeyError leaves the handler
                           /\ pc' = [pc EXCEPT ![c] = "failed"]
                           /\ UNCHANGED people
                   /\ UNCHANGED << messages, out, appended, clock >>
              ELSE IF left_chat(message.val)
              THEN \* break
                   /\ inbuf' = [inbuf EXCEPT ![c] = message.rest]
                   /\ pc' = [pc EXCEPT ![c] = "closed"]
                   /\ UNCHANGED << people, messages, out, appended, clock >>
              ELSE \E now \in times :
                   LET message_list ==
                          << strftime(now), valid_username[c], message.val >>
                   IN  /\ Len(appended) < limit
                       /\ clock' = now
                       /\ inbuf' = [inbuf EXCEPT ![c] = message.rest]
                       /\ messages' = add_to_recent_messages(messages, message_list)
                       /\ out' = send_messages_to_all(out, people,
                                                      messages'[Len(messages')])
                       /\ appended' = Append(appended, message_list)
                       /\ pc' = [pc EXCEPT ![c] = "opcode"]
                       /\ UNCHANGED people
    /\ UNCHANGED << valid_username, regAt, codecVars, clientVars >>

\* TCPServerClient.__init__, and a handler at line 224 for each connection
InitServer(conns) ==
    /\ people = << >>
    /\ messages = << >>
    /\ pc = [c \in conns |-> "opcode"]
    /\ valid_username = [c \in conns |-> False]
    /\ inbuf = [c \in conns |-> << >>]
    /\ eof = [c \in conns |-> FALSE]
    /\ out = [c \in conns |-> << >>]
    /\ clock = 0
    /\ appended = << >>
    /\ regAt = [c \in conns |-> -1]

CodecOff ==
    /\ ckind = "off"
    /\ cvalue = << >>
    /\ cwire = << >>
    /\ ctail = << >>
    /\ cresult = Raise
    /\ cphase = "off"

ClientOff ==
    /\ wpc = "off"
    /\ rpc = "off"
    /\ client_valid_username = "unset"
    /\ written = << >>
    /\ rbuf = << >>
    /\ printed = << >>

\* what the clients of Spec send, all within one second of the wall clock
Opcodes == {OpRegister, OpSend, 3}
Usernames == {<< >>, StrA, StrB}
Bodies == {StrM}

OpcodeArrivals(ops) == {Arrival(pack_i(op), FALSE) : op \in ops} \cup {EndOfStream}
StrArrivals(strs) == {Arrival(send_str(s), FALSE) : s \in strs} \cup {EndOfStream}

\* a String frame cut off by the end of the stream after its length, and
\* one whose payload is not UTF-8
BrokenFrames ==
    { Arrival(pack_i(1), TRUE), Arrival(pack_i(1) \o << 255 >>, FALSE) }

Init == InitServer(Conns) /\ CodecOff /\ ClientOff

Next ==
    \/ \E c \in Conns : \E a \in OpcodeArrivals(Opcodes) : ReadOpcode(c, a)
    \/ \E c \in Conns : \E a \in StrArrivals(Usernames) \cup BrokenFrames :
            ReadUsername(c, a)
    \/ \E c \in Conns : \E a \in StrArrivals(Bodies) \cup BrokenFrames :
            ReadBody(c, a, MaxAppends, {clock})

Spec == Init /\ [][Next]_vars

\* the two clients of SpecLong: one registers and chats for long enough to
\* fill the history, the other registers at some point and listens
LongConns == {"talker", "joiner"}
LongUsernames == {StrA, StrB}

InitLong == InitServer(LongConns) /\ CodecOff /\ ClientOff

NextLong ==
    \/ \E a \in OpcodeArrivals({OpRegister, OpSend}) : ReadOpcode("talker", a)
    \/ \E a \in OpcodeArrivals({OpRegister}) : ReadOpcode("joiner", a)
    \/ \E c \in LongConns : \E a \in StrArrivals(LongUsernames) :
            ReadUsername(c, a)
    \/ \E a \in StrArrivals(Bodies) :
            ReadBody("talker", a, MaxLongAppends, clock .. MaxClock)

SpecLong == InitLong /\ [][NextLong]_vars

\* the two clients of SpecFrames write every frame whole, the opcode and its
\* String together, so that a read finds the rest of a frame already there.
\* The sender registers and then writes frames of every kind, once a
\* Register and a Send at once; the listener registers and reads.
FrameConns == {"sender", "listener"}
FrameBodies == {<< >>, StrM}
LongName == << 98, 98 >>

Frame(op, string) == pack_i(op) \o send_str(string)

Frames(c) ==
    IF c = "listener"
    THEN {Frame(OpRegister, StrB)}
    ELSE {Frame(OpRegister, StrA), Frame(3, StrM),
          Frame(OpRegister, LongName) \o Frame(OpSend, StrM)}
             \cup {Frame(OpSend, s) : s \in FrameBodies}

\* nothing more arrives before the read returns
Nothing == Arrival(<< >>, FALSE)

\* frames arrive when the bytes before them have been read
FrameArrivals(c) ==
    {Arrival(f, FALSE) : f \in IF inbuf[c] = << >> THEN Frames(c) ELSE { }}
        \cup {Nothing, EndOfStream}

InitFrames == InitServer(FrameConns) /\ CodecOff /\ ClientOff

NextFrames ==
    \/ \E c \in FrameConns : \E a \in FrameArrivals(c) : ReadOpcode(c, a)
    \/ \E c \in FrameConns : \E a \in {Nothing, EndOfStream} : ReadUsername(c, a)
    \/ \E c \in FrameConns : \E a \in {Nothing, EndOfStream} :
            ReadBody(c, a, MaxFrameAppends, {clock})

SpecFrames == InitFrames /\ [][NextFrames]_vars

----------------------------------------------------------------------------
(* The codec on its own: a value is composed, written by a send function,  *)
(* and read back by the matching recv function from a stream that holds    *)
(* all of its bytes, followed by the bytes of whatever was written next    *)

Kinds == {"str", "list", "lol"}
Chars == {97, 233}
Tails == {<< >>, pack_i(OpSend)}

RECURSIVE SizeOfList(_)
SizeOfList(strings) ==
    IF strings = << >>
    THEN 0
    ELSE 1 + Len(Head(strings)) + SizeOfList(Tail(strings))

RECURSIVE SizeOfLists(_)
SizeOfLists(lists) ==
    IF lists = << >>
    THEN 0
    ELSE 1 + SizeOfList(Head(lists)) + SizeOfLists(Tail(lists))

Size(kind, v) ==
    IF kind = "str" THEN Len(v)
    ELSE IF kind = "list" THEN SizeOfList(v)
    ELSE SizeOfLists(v)

\* v with x appended to its last element
AppendToLast(v, x) == [v EXCEPT ![Len(v)] = Append(@, x)]

Compose(v) ==
    /\ cphase = "compose"
    /\ Size(ckind, cvalue) < MaxSize
    /\ cvalue' = v
    /\ UNCHANGED << serverVars, clientVars, ckind, cwire, ctail, cresult, cphase >>

\* one more character at the end of the last string
AddChar(ch) ==
    \/ ckind = "str" /\ Compose(Append(cvalue, ch))
    \/ ckind = "list" /\ cvalue # << >> /\ Compose(AppendToLast(cvalue, ch))
    \/ /\ ckind = "lol" /\ cvalue # << >> /\ cvalue[Len(cvalue)] # << >>
       /\ Compose([cvalue EXCEPT ![Len(cvalue)] = AppendToLast(@, ch)])

\* one more (empty) string at the end of the last list
AddStr ==
    \/ ckind = "list" /\ Compose(Append(cvalue, << >>))
    \/ ckind = "lol" /\ cvalue # << >> /\ Compose(AppendToLast(cvalue, << >>))

\* one more (empty) list
AddList == ckind = "lol" /\ Compose(Append(cvalue, << >>))

\* send_str, send_str_list or send_list_of_lists writes the value
CodecSend(tail) ==
    /\ cphase = "compose"
    /\ cwire' = IF ckind = "str" THEN send_str(cvalue)
                ELSE IF ckind = "list" THEN send_str_list(cvalue)
                ELSE send_list_of_lists(cvalue)
    /\ ctail' = tail
    /\ cphase' = "sent"
    /\ UNCHANGED << serverVars, clientVars, ckind, cvalue, cresult >>

\* recv_str, recv_str_list or recv_list_of_lists reads it back
CodecRecv ==
    /\ cphase = "sent"
    /\ cresult' = IF ckind = "str" THEN recv_str(cwire \o ctail)
                  ELSE IF ckind = "list" THEN recv_str_list(cwire \o ctail)
                  ELSE recv_list_of_lists(cwire \o ctail)
    /\ cphase' = "received"
    /\ UNCHANGED << serverVars, clientVars, ckind, cvalue, cwire, ctail >>

InitCodec ==
    /\ InitServer({ })
    /\ ClientOff
    /\ ckind \in Kinds
    /\ cvalue = << >>
    /\ cwire = << >>
    /\ ctail = << >>
    /\ cresult = Raise
    /\ cphase = "compose"

NextCodec ==
    \/ \E ch \in Chars : AddChar(ch)
    \/ AddStr
    \/ AddList
    \/ \E tail \in Tails : CodecSend(tail)
    \/ CodecRecv

SpecCodec == InitCodec /\ [][NextCodec]_vars

----------------------------------------------------------------------------
(* The client: client_connect and its two tasks, write_to_server and       *)
(* read_from_server, with the user at the keyboard and the server at the    *)
(* other end of the connection                                             *)

\* struct.pack('<?', b)
pack_bool(b) == << IF b THEN 1 ELSE 0 >>

\* ' '.join(message)
RECURSIVE join(_)
join(strings) ==
    IF strings = << >>
    THEN << >>
    ELSE IF Len(strings) = 1
    THEN strings[1]
    ELSE strings[1] \o << 32 >> \o join(Tail(strings))

\* the for loop of client_get_recent_messages: one line per message
RECURSIVE print_all(_, _)
print_all(lines, recent_messages) ==
    IF recent_messages = << >>
    THEN lines
    ELSE print_all(Append(lines, join(Head(recent_messages))),
                   Tail(recent_messages))

\* what the user types and what the server sends
ClientUsernames == {StrA, StrB}
ClientLines == {<< >>, StrM}
ServerMessage == << strftime(0), StrB, StrM >>
ServerHistories == {<< >>, << ServerMessage >>}

\* lines 151-152 of the server: the flag and the history, written together
Accepted(recent_messages) ==
    Arrival(pack_bool(TRUE) \o send_list_of_lists(recent_messages), FALSE)

\* lines 155 and 243 of the server: the flag, then the connection is closed
Refused == Arrival(pack_bool(FALSE), TRUE)

\* the server answers once the username has been written to it
Answers ==
    IF wpc \in {"start", "username"}
    THEN {EndOfStream}
    ELSE {Accepted(h) : h \in ServerHistories} \cup {Refused, EndOfStream}

\* the task read_from_server has returned, raised or been cancelled
ReaderEnded == rpc \in {"returned", "raised", "cancelled"}

\* the task write_to_server has raised
WriterEnded == wpc \in {"raised", "exited"}

\* client_send_username, line 120, up to the await of line 121
SendRegisterOpcode ==
    /\ wpc = "start"
    /\ written' = Append(written, pack_i(OpRegister))
    /\ wpc' = "username"
    /\ UNCHANGED << serverVars, codecVars, rpc, client_valid_username, rbuf,
                    printed >>

\* input returns the username: line 122, then line 193 up to the await of
\* line 194
EnterUsername(username) ==
    /\ wpc = "username"
    /\ written' = written \o << send_str(username), pack_i(OpSend) >>
    /\ wpc' = "input"
    /\ UNCHANGED << serverVars, codecVars, rpc, client_valid_username, rbuf,
                    printed >>

\* input returns a line: line 195, then line 193 up to the await of line 194
EnterLine(data) ==
    /\ wpc = "input"
    /\ Len(written) < 3 + 2 * MaxLines
    /\ written' = written \o << send_str(data), pack_i(OpSend) >>
    /\ UNCHANGED << serverVars, codecVars, wpc, rpc, client_valid_username,
                    rbuf, printed >>

\* input raises EOFError at line 121 or 194: the task write_to_server ends
EndOfInput ==
    /\ wpc \in {"username", "input"}
    /\ wpc' = "raised"
    /\ UNCHANGED << serverVars, codecVars, rpc, client_valid_username, written,
                    rbuf, printed >>

\* line 209 raises what write_to_server raised, and asyncio.run (line 276)
\* cancels the task that is left and closes the loop: the process exits
Shutdown ==
    /\ wpc = "raised"
    /\ wpc' = "exited"
    /\ rpc' = IF ReaderEnded THEN rpc ELSE "cancelled"
    /\ UNCHANGED << serverVars, codecVars, client_valid_username, written,
                    rbuf, printed >>

\* line 176, and lines 177 and 180 when the flag is False
ReadValidation(a) ==
    /\ rpc = "validation"
    /\ rbuf \o a.bytes # << >> \/ a.eof
    /\ LET valid == recv_bool(rbuf \o a.bytes)
       IN  IF ~valid.ok
           THEN /\ rpc' = "raised"
                /\ rbuf' = << >>
                /\ UNCHANGED client_valid_username
           ELSE /\ rbuf' = valid.rest
                /\ client_valid_username' =
                       IF valid.val THEN "accepted" ELSE "rejected"
                /\ rpc' = IF valid.val THEN "recent" ELSE "returned"
    /\ UNCHANGED << serverVars, codecVars, wpc, written, printed >>

\* client_get_recent_messages, line 178
ReadRecent(a) ==
    /\ rpc = "recent"
    /\ LET recent_messages == recv_list_of_lists(rbuf \o a.bytes)
       IN  IF ~recent_messages.ok
           THEN /\ rpc' = "raised"
                /\ rbuf' = << >>
                /\ UNCHANGED printed
           ELSE /\ rbuf' = recent_messages.rest
                /\ printed' = print_all(printed, recent_messages.val)
                /\ rpc' = "message"
    /\ UNCHANGED << serverVars, codecVars, wpc, client_valid_username, written >>

\* lines 181-182, one turn of the loop; at most MaxPrinted lines are printed
ReadMessage(a) ==
    /\ rpc = "message"
    /\ a.bytes # << >> => Len(printed) < MaxPrinted
    /\ LET message == recv_str_list(rbuf \o a.bytes)
       IN  IF ~message.ok
           THEN /\ rpc' = "raised"
                /\ rbuf' = << >>
                /\ UNCHANGED printed
           ELSE /\ rbuf' = message.rest
                /\ printed' = Append(printed, join(message.val))
                /\ UNCHANGED rpc
    /\ UNCHANGED << serverVars, codecVars, wpc, client_valid_username, written >>

\* client_connect after lines 206-207: both tasks created, neither yet run
InitClient ==
    /\ InitServer({ })
    /\ CodecOff
    /\ wpc = "start"
    /\ rpc = "validation"
    /\ client_valid_username = "unset"
    /\ written = << >>
    /\ rbuf = << >>
    /\ printed = << >>

NextClient ==
    \/ SendRegisterOpcode
    \/ \E username \in ClientUsernames : EnterUsername(username)
    \/ \E data \in ClientLines : EnterLine(data)
    \/ EndOfInput
    \/ Shutdown
    \/ \E a \in Answers : ReadValidation(a)
    \/ \E a \in {Nothing, EndOfStream} : ReadRecent(a)
    \/ \E a \in {Arrival(send_str_list(ServerMessage), FALSE), EndOfStream} :
            ReadMessage(a)

SpecClient == InitClient /\ [][NextClient]_vars

\* the event loop runs client_connect when the task it awaits is done; the
\* user and the server are not bound to do anything
SpecClientLive == SpecClient /\ WF_vars(Shutdown)

----------------------------------------------------------------------------
(* What the claims speak of *)

Max(a, b) == IF a > b THEN a ELSE b

\* the last n elements of s (all of s when it has fewer)
LastN(s, n) == SubSeq(s, Len(s) - Min(Len(s), n) + 1, Len(s))

\* the last frame written to c is accepted=false
Rejected(c) == out[c] # << >> /\ out[c][Len(out[c])] = BoolFrame(FALSE)

\* the messages of the frames fs, in order: those of a history, then one per
\* broadcast
RECURSIVE MessagesOf(_)
MessagesOf(fs) ==
    IF fs = << >>
    THEN << >>
    ELSE (IF Head(fs).kind = "bool" THEN << >> ELSE Head(fs).lists)
         \o MessagesOf(Tail(fs))

\* no two sessions in their loop hold the same username, and each is the
\* registry's entry for its username
UniqueOwners ==
    \A c1 \in DOMAIN pc :
        Registered(c1) =>
            /\ valid_username[c1] \in DOMAIN people
            /\ people[valid_username[c1]] = c1
            /\ \A c2 \in DOMAIN pc \ {c1} :
                   Registered(c2) => valid_username[c2] # valid_username[c1]

\* C1: a Register for a username that is already a key of the registry is
\* answered accepted=false and leaves the registry unchanged; whatever the
\* interleaving of the handlers, no two sessions hold one username at a time
\* and the registry's entry for a held username is its holder.
C1_Step ==
    /\ \A c \in Conns :
          (pc[c] = "username" /\ pc'[c] # "username") =>
             \A a \in StrArrivals(Usernames) \cup BrokenFrames :
                LET username == recv_str(Avail(c, a))
                IN  (ReadUsername(c, a) /\ username.ok
                        /\ username.val \in DOMAIN people) =>
                       /\ people' = people
                       /\ out'[c] = Append(out[c], BoolFrame(FALSE))
                       /\ valid_username'[c] = False
    /\ UniqueOwners'

C1_UniqueUsername == [][C1_Step]_vars

\* one connection holds a username and the other was refused it
C1_Witness ==
    \E c1, c2 \in Conns :
        /\ Registered(c1) /\ valid_username[c1] = StrA
        /\ DOMAIN people = {StrA}
        /\ out[c2] = << BoolFrame(FALSE) >>

\* C2: after M appends through add_to_recent_messages the history holds the
\* last min(M, 10) appended messages in insertion order: an append at
\* capacity evicts the single oldest entry and keeps the order of the rest.
C2_BoundedHistory ==
    /\ Len(messages) = Min(Len(appended), HistoryCapacity)
    /\ messages = LastN(appended, HistoryCapacity)

\* eleven messages were appended, the evicted one unlike the one after it
C2_Witness ==
    /\ Len(appended) = HistoryCapacity + 1
    /\ Len(messages) = HistoryCapacity
    /\ appended[1] # appended[2]
    /\ messages[1] = appended[2]

\* C3: a connection whose Register is accepted after K appends is sent, as
\* its history list, the last min(K, 10) appended messages, oldest first:
\* that is what its client decodes from the bytes of send_list_of_lists.
C3_SnapshotFidelity ==
    \A c \in DOMAIN pc :
        regAt[c] >= 0 =>
            /\ Len(out[c]) >= 2
            /\ out[c][1] = BoolFrame(TRUE)
            /\ out[c][2].kind = "hist"
            /\ recv_list_of_lists(send_list_of_lists(out[c][2].lists)).val
                 = LastN(SubSeq(appended, 1, regAt[c]), HistoryCapacity)

\* the joiner registered after eleven appends and was sent ten messages,
\* the first of them unlike the last
C3_Witness ==
    /\ regAt["joiner"] = HistoryCapacity + 1
    /\ Len(out["joiner"][2].lists) = HistoryCapacity
    /\ out["joiner"][2].lists[1] # out["joiner"][2].lists[HistoryCapacity]
    /\ out["joiner"][2].lists[1] = appended[2]

\* C4: every message appended is written at once, as the same
\* [timestamp, username, body], to every session that is registered at
\* that moment, its sender included.
C4_Step ==
    appended' # appended =>
        LET message == appended'[Len(appended')]
        IN  /\ Len(appended') = Len(appended) + 1
            /\ \A c \in Conns :
                   Registered(c) =>
                       out'[c] = Append(out[c], MsgFrame(message))
            /\ \E c \in Conns :
                   /\ pc[c] = "body" /\ pc'[c] = "opcode"
                   /\ message[2] = valid_username[c]
                   /\ out'[c] = Append(out[c], MsgFrame(message))

C4_BroadcastComplete == [][C4_Step]_vars

\* two registered sessions have both been written the same two messages
C4_Witness ==
    \E c1, c2 \in Conns :
        /\ c1 # c2 /\ Registered(c1) /\ Registered(c2)
        /\ Len(appended) = 2
        /\ appended[1][2] # appended[2][2]
        /\ SubSeq(out[c1], 3, 4) = << MsgFrame(appended[1]), MsgFrame(appended[2]) >>
        /\ SubSeq(out[c2], 3, 4) = << MsgFrame(appended[1]), MsgFrame(appended[2]) >>

\* C5: a registered session has been sent, in its history and its
\* broadcasts together, every message that was among the last 10 appended
\* when it registered or was appended later, each exactly once and in order.
C5_ExactlyOnce ==
    \A c \in DOMAIN pc :
        Registered(c) =>
            MessagesOf(out[c]) =
                SubSeq(appended, Max(regAt[c] - HistoryCapacity, 0) + 1,
                       Len(appended))

\* the joiner registered after eleven appends, the first of them unlike the
\* second, and a twelfth followed: it was sent the second to the eleventh
\* in its history and the twelfth as a broadcast
C5_Witness ==
    /\ Registered("joiner") /\ Registered("talker")
    /\ regAt["joiner"] = HistoryCapacity + 1
    /\ Len(appended) = HistoryCapacity + 2
    /\ appended[1] # appended[2]
    /\ Len(out["joiner"]) = 3
    /\ out["joiner"][2] = HistFrame(SubSeq(appended, 2, HistoryCapacity + 1))
    /\ out["joiner"][3] = MsgFrame(appended[HistoryCapacity + 2])

\* C6: a session that was registered and has ended (its stream ended or a
\* read failed, at the opcode read or at the body read) no longer has its
\* username in the registry.
C6_UsernameReleased ==
    \A c \in DOMAIN pc :
        (Gone(c) /\ Truthy(valid_username[c])) =>
            valid_username[c] \notin DOMAIN people

\* C7, as claimed: after accepted=false the session stays open, waiting for
\* another Register.
C7_OpenAfterRejection ==
    \A c \in DOMAIN pc : Rejected(c) => pc[c] \in {"opcode", "username"}

\* C7, as the code has it: a rejection ends the session; the handler leaves
\* its loop and closes the connection after the one accepted=false, having
\* neither a username nor a registry entry.
C7_RejectionCloses ==
    \A c \in DOMAIN pc :
        Rejected(c) =>
            /\ pc[c] = "closed"
            /\ out[c] = << BoolFrame(FALSE) >>
            /\ valid_username[c] = False
            /\ c \notin Range(people)

\* a connection was refused and closed by the server, its peer still
\* connected, while another username was free
C7_Witness ==
    \E c \in Conns :
        /\ Rejected(c) /\ pc[c] = "closed" /\ ~eof[c]
        /\ StrB \notin DOMAIN people

\* C8: a broadcast made while the registry holds a connection that is
\* closed skips that connection: the message is written to every session
\* in its loop, nothing is written to the closed one, and the broadcasting
\* session stays registered under its username.
C8_Step ==
    (appended' # appended /\ \E u \in DOMAIN people : Gone(people[u])) =>
        LET message == appended'[Len(appended')]
        IN  /\ \A c \in Conns :
                   IF Registered(c)
                   THEN out'[c] = Append(out[c], MsgFrame(message))
                   ELSE out'[c] = out[c]
            /\ people' = people
            /\ \A c \in Conns :
                   pc[c] = "body" /\ pc'[c] # "body" =>
                       /\ pc'[c] = "opcode"
                       /\ Registered(c)'
                       /\ people'[valid_username[c]] = c

C8_BroadcastIsolation == [][C8_Step]_vars

\* both messages of a run were broadcast while the registry held a closed
\* connection, which got neither, and reached the session that sent them
C8_Witness ==
    \E c1, c2 \in Conns :
        /\ Gone(c1) /\ c1 \in Range(people) /\ regAt[c1] = 0
        /\ MessagesOf(out[c1]) = << >>
        /\ Registered(c2)
        /\ Len(appended) = 2
        /\ MessagesOf(out[c2]) = appended

\* C9: the bytes written by send_str, send_str_list and send_list_of_lists,
\* when all of them are available to the reader, are decoded by recv_str,
\* recv_str_list and recv_list_of_lists to a value equal to the input, and
\* exactly those bytes are consumed: what follows is left on the stream.
C9_RoundTrip ==
    cphase = "received" =>
        /\ cresult.ok
        /\ cresult.val = cvalue
        /\ cresult.rest = ctail

\* a list of lists with an empty list, an empty string and a two-byte
\* character has made the round trip, with bytes following it
C9_Witness ==
    /\ cphase = "received"
    /\ ckind = "lol"
    /\ Len(cvalue) = 2
    /\ cvalue[1] = << >>
    /\ cvalue[2] = << << >>, << 233 >> >>
    /\ ctail # << >>
    /\ cresult.val = cvalue

\* C10: every key of the registry maps to a connection whose session is
\* registered under that key and in its loop.
C10_RegistryLive ==
    \A u \in DOMAIN people :
        Registered(people[u]) /\ valid_username[people[u]] = u

\* C11: a Register answered accepted=true is followed at once by the
\* history, and leaves the session registered and in its loop, reading the
\* next opcode, whatever the accepted username is.
C11_Step ==
    \A c \in Conns :
        (/\ pc[c] = "username"
         /\ Len(out'[c]) > Len(out[c])
         /\ out'[c][Len(out[c]) + 1] = BoolFrame(TRUE)) =>
            /\ out'[c] = out[c] \o << BoolFrame(TRUE), HistFrame(messages) >>
            /\ pc'[c] = "opcode"
            /\ Registered(c)'

C11_AcceptedStaysOpen == [][C11_Step]_vars

\* the cut-off String frames among those of BrokenFrames: the stream ends
\* with fewer payload bytes than the length says
CutOff(a) ==
    /\ a.eof
    /\ recv_int(a.bytes).ok
    /\ recv_int(a.bytes).val > Len(recv_int(a.bytes).rest)

\* C12: a body whose String frame is cut off by the end of the stream after
\* its length is not appended and not broadcast.
C12_Step ==
    \A c \in Conns :
        pc[c] = "body" =>
            \A a \in { b \in BrokenFrames : CutOff(b) } :
                ReadBody(c, a, MaxAppends, {clock}) =>
                    /\ appended' = appended
                    /\ messages' = messages
                    /\ out' = out

C12_AllOrNothing == [][C12_Step]_vars

\* C13: an opcode other than Register read from a connection without an
\* accepted username ends the session: the handler closes the connection,
\* with the registry, the history and everything written left as they were.
C13_Step ==
    \A c \in Conns :
        (pc[c] = "opcode" /\ valid_username[c] = False) =>
            \A a \in OpcodeArrivals(Opcodes \ {OpRegister}) \ {EndOfStream} :
                ReadOpcode(c, a) =>
                    /\ pc'[c] = "closed"
                    /\ people' = people
                    /\ messages' = messages
                    /\ appended' = appended
                    /\ out' = out

C13_NoSendBeforeRegister ==
    /\ [][C13_Step]_vars
    /\ [](\A i \in 1 .. Len(appended) : appended[i][2] # False)

\* a connection was closed on its first opcode, nothing written to it and
\* its peer still connected, after another session's message was appended
C13_Witness ==
    \E c1, c2 \in Conns :
        /\ pc[c1] = "closed" /\ out[c1] = << >> /\ ~eof[c1]
        /\ valid_username[c1] = False
        /\ Registered(c2)
        /\ Len(appended) = 1
        /\ MessagesOf(out[c2]) = appended

\* the frame with an opcode that is neither Register nor Send
UnknownOpcode == Arrival(Frame(3, StrM), FALSE)

\* C14, as claimed: an opcode that is neither Register nor Send, read from a
\* registered session, ends the session.
C14_Closes ==
    \A c \in FrameConns :
        (Registered(c) /\ pc[c] = "opcode" /\ inbuf[c] = << >>) =>
            (ReadOpcode(c, UnknownOpcode) => pc'[c] = "closed")

C14_UnknownOpcodeCloses == [][C14_Closes]_vars

\* C14, as the code has it: such an opcode is passed over.  The session
\* stays registered and in its loop, nothing is appended, written or removed,
\* and the handler goes on to read an opcode with the String of the frame
\* still unread before it.
C14_Step ==
    \A c \in FrameConns :
        (Registered(c) /\ pc[c] = "opcode" /\ inbuf[c] = << >>) =>
            (ReadOpcode(c, UnknownOpcode) =>
                /\ pc'[c] = "opcode"
                /\ Registered(c)'
                /\ inbuf'[c] = send_str(StrM)
                /\ people' = people
                /\ messages' = messages
                /\ appended' = appended
                /\ out' = out)

C14_UnknownOpcodeIgnored == [][C14_Step]_vars

\* the sender, registered, has read the opcode 3: it is in its loop with the
\* String of that frame before it, and the listener is registered too
C14_Witness ==
    /\ Registered("sender") /\ Registered("listener")
    /\ pc["sender"] = "opcode"
    /\ inbuf["sender"] = send_str(StrM)
    /\ ~eof["sender"]
    /\ valid_username["sender"] \in DOMAIN people

\* the keys of the registry that map to connection c
KeysOf(ppl, c) == { u \in DOMAIN ppl : ppl[u] = c }

\* how many of the frames fs are a history
Histories(fs) == Cardinality({ i \in 1 .. Len(fs) : fs[i].kind = "hist" })

\* C15: once a connection has a username no step changes it, gives the
\* connection a key of the registry it did not have, or writes it another
\* history; a connection never has two keys or two histories.
C15_Step ==
    \A c \in DOMAIN pc :
        valid_username[c] # False =>
            /\ valid_username'[c] = valid_username[c]
            /\ KeysOf(people', c) \subseteq KeysOf(people, c)
            /\ Histories(out'[c]) = Histories(out[c])

C15_UsernameImmutable ==
    /\ [][C15_Step]_vars
    /\ [](\A c \in DOMAIN pc :
             /\ Cardinality(KeysOf(people, c)) <= 1
             /\ Histories(out[c]) <= 1)

\* the sender, registered as a, has read the opcode of a Register for the
\* free username bb: it still is a, the only key of the registry, and has
\* been written one accepted flag and one history
C15_Witness ==
    /\ Registered("sender")
    /\ valid_username["sender"] = StrA
    /\ pc["sender"] = "opcode"
    /\ inbuf["sender"] = send_str(LongName) \o Frame(OpSend, StrM)
    /\ DOMAIN people = {StrA}
    /\ Len(out["sender"]) = 2

\* C16: a Send whose String has length 0, read from a registered session,
\* is appended with the empty body and written to every registered session;
\* the sender stays registered and the registry is unchanged.
C16_Step ==
    \A c \in FrameConns :
        (/\ pc[c] = "body" /\ pc'[c] # "body"
         /\ Len(inbuf[c]) >= 4 /\ SubSeq(inbuf[c], 1, 4) = pack_i(0)) =>
            LET message == << strftime(clock'), valid_username[c], << >> >>
            IN  /\ appended' = Append(appended, message)
                /\ messages'[Len(messages')] = message
                /\ \A c2 \in FrameConns :
                       Registered(c2) =>
                           out'[c2] = Append(out[c2], MsgFrame(message))
                /\ Registered(c)'
                /\ pc'[c] = "opcode"
                /\ people' = people
                /\ people'[valid_username[c]] = c

C16_EmptyBodyIsMessage == [][C16_Step]_vars

\* the sender's empty message was appended and written to the listener and
\* to the sender, which is still registered with its peer connected
C16_Witness ==
    /\ Registered("sender") /\ Registered("listener")
    /\ ~eof["sender"] /\ inbuf["sender"] = << >>
    /\ Len(appended) = 1
    /\ appended[1][3] = << >>
    /\ out["sender"][Len(out["sender"])] = MsgFrame(appended[1])
    /\ out["listener"][Len(out["listener"])] = MsgFrame(appended[1])
    /\ people[valid_username["sender"]] = "sender"

\* C19: the server reads the opcode and the String of each frame where the
\* client wrote them, so the body of every appended message is the String
\* of a Send frame some client wrote.
C19_FrameAligned ==
    \A i \in 1 .. Len(appended) : appended[i][3] \in FrameBodies

\* C20: what any connection has been sent, its history and then its
\* broadcasts, is a run of consecutive appended messages in the order of
\* their appends, and the history holds its messages in that order too.
C20_GlobalOrder ==
    /\ messages = LastN(appended, HistoryCapacity)
    /\ \A c \in DOMAIN pc :
           \E i \in 1 .. Len(appended) + 1 : \E j \in 0 .. Len(appended) :
               MessagesOf(out[c]) = SubSeq(appended, i, j)

\* two sessions each sent a message: the second to register was sent the
\* first message in its history and the second as a broadcast, the first to
\* register was sent both as broadcasts, in the same order
C20_Witness ==
    \E c1, c2 \in Conns :
        /\ Len(appended) = 2
        /\ appended[1] # appended[2]
        /\ appended[1][2] = valid_username[c1]
        /\ appended[2][2] = valid_username[c2]
        /\ out[c1] = << BoolFrame(TRUE), HistFrame(<< >>),
                        MsgFrame(appended[1]), MsgFrame(appended[2]) >>
        /\ out[c2] = << BoolFrame(TRUE), HistFrame(<< appended[1] >>),
                        MsgFrame(appended[2]) >>

\* the client has written a Send opcode
HasSend == \E i \in 1 .. Len(written) : written[i] = pack_i(OpSend)

\* C17: the client has written a Send opcode only if it has read
\* accepted=true from the server.
C17_SendAfterAcceptance == HasSend => client_valid_username = "accepted"

\* C18: when read_from_server ends, write_to_server ends in time, and when
\* write_to_server ends, the process exits, closing the connection, with
\* read_from_server ended.
C18_TerminateTogether ==
    /\ ReaderEnded ~> WriterEnded
    /\ WriterEnded ~> (wpc = "exited" /\ ReaderEnded)

====
